---- MODULE Spec2Model ----
(***************************************************************************)
(* SimpleBook: the rule classifier (rules/rules_v1.py), the two            *)
(* needs-review selectors and the review-ledger commands (sb.py).          *)
(*                                                                         *)
(* Python strings are sequences of one-character strings, so that upper(), *)
(* strip(), split(), html.unescape() and the substring test `in` are       *)
(* computed, not assumed.  Python's None is the value None below.          *)
(***************************************************************************)
EXTENDS Integers, Sequences, FiniteSets, TLC

(* ------------------------------ bounds -------------------------------- *)

\* Words joined into a transaction name handed to the classifier.
MaxWords == 2
\* Words joined into a transaction name handed to the selectors.
MaxSelWords == 2
\* key=value arguments of one review-set invocation in the operator workflow.
MaxArgs == 1
\* key=value arguments of one review-set invocation on a reviewed bucket.
MaxPatchArgs == 2
\* Transactions of the month's statement that imports have brought in.
MaxTxs == 3

(* --------------------------- Python strings --------------------------- *)

None == <<"None">>

Truthy(x) == x # None /\ x # <<>>

\* `x or ""`
OrEmpty(x) == IF Truthy(x) THEN x ELSE <<>>

Whitespace == {" ", "\t", "\n"}

LowerAlphabet ==
    <<"a", "b", "c", "d", "e", "f", "g", "h", "i", "j", "k", "l", "m",
      "n", "o", "p", "q", "r", "s", "t", "u", "v", "w", "x", "y", "z">>

UpperAlphabet ==
    <<"A", "B", "C", "D", "E", "F", "G", "H", "I", "J", "K", "L", "M",
      "N", "O", "P", "Q", "R", "S", "T", "U", "V", "W", "X", "Y", "Z">>

UpperChar(c) ==
    IF \E i \in 1..26 : LowerAlphabet[i] = c
    THEN UpperAlphabet[CHOOSE i \in 1..26 : LowerAlphabet[i] = c]
    ELSE c

RECURSIVE upper(_)
upper(s) ==
    IF s = <<>> THEN <<>> ELSE <<UpperChar(Head(s))>> \o upper(Tail(s))

RECURSIVE lstrip(_, _)
lstrip(s, chars) ==
    IF s # <<>> /\ Head(s) \in chars THEN lstrip(Tail(s), chars) ELSE s

RECURSIVE rstrip(_, _)
rstrip(s, chars) ==
    IF s # <<>> /\ s[Len(s)] \in chars
    THEN rstrip(SubSeq(s, 1, Len(s) - 1), chars)
    ELSE s

\* str.strip(): whitespace off both ends.
strip(s) == rstrip(lstrip(s, Whitespace), Whitespace)

\* str.strip(chars)
strip_chars(s, chars) == rstrip(lstrip(s, chars), chars)

StartsWith(s, pat) ==
    Len(s) >= Len(pat) /\ SubSeq(s, 1, Len(pat)) = pat

\* `pat in s`
In(pat, s) ==
    \E i \in 0..(Len(s) - Len(pat)) : SubSeq(s, i + 1, i + Len(pat)) = pat

\* str.find(c) counted from 1: the first i >= from with s[i] = c, 0 when none.
RECURSIVE FindFrom(_, _, _)
FindFrom(s, c, from) ==
    IF from > Len(s) THEN 0
    ELSE IF s[from] = c THEN from
    ELSE FindFrom(s, c, from + 1)

Find(s, c) == FindFrom(s, c, 1)

AMP_ENTITY == <<"&", "a", "m", "p", ";">>

\* html.unescape on the entity the inputs carry: &amp; becomes &.
RECURSIVE unescape(_)
unescape(s) ==
    IF s = <<>> THEN <<>>
    ELSE IF StartsWith(s, AMP_ENTITY)
         THEN <<"&">> \o unescape(SubSeq(s, Len(AMP_ENTITY) + 1, Len(s)))
         ELSE <<Head(s)>> \o unescape(Tail(s))

\* All names made of at most n words of W joined by single spaces.
RECURSIVE NamesUpTo(_, _)
NamesUpTo(W, n) ==
    IF n = 0 THEN {<<>>}
    ELSE LET prev == NamesUpTo(W, n - 1)
         IN  prev \cup {IF p = <<>> THEN w ELSE p \o <<" ">> \o w :
                            p \in prev, w \in W}

(* ------------------------------ strings ------------------------------- *)

TOK_AMERICAN_EXPRESS == <<"A", "M", "E", "R", "I", "C", "A", "N", " ", "E", "X", "P", "R", "E", "S", "S">>

TOK_AMEX == <<"A", "M", "E", "X">>

TOK_CITI == <<"C", "I", "T", "I">>

TOK_CITIBANK == <<"C", "I", "T", "I", "B", "A", "N", "K">>

TOK_AT_T == <<"A", "T", "&", "T">>

TOK_ATT == <<"A", "T", "T">>

TOK_HOME_DEPOT == <<"H", "O", "M", "E", " ", "D", "E", "P", "O", "T">>

TOK_CASH_APP == <<"C", "A", "S", "H", " ", "A", "P", "P">>

TOK_TRANSFER_TO == <<"T", "R", "A", "N", "S", "F", "E", "R", " ", "T", "O">>

TOK_TRANSFER == <<"T", "R", "A", "N", "S", "F", "E", "R">>

TOK_META_PAY == <<"M", "E", "T", "A", " ", "P", "A", "Y">>

TOK_CHECK_HASH == <<"C", "H", "E", "C", "K", " ", "#">>

TOK_CHECK == <<"C", "H", "E", "C", "K">>

TOK_POS == <<"P", "O", "S">>

TOK_ONLINE == <<"O", "N", "L", "I", "N", "E">>

TOK_PAYMENT == <<"P", "A", "Y", "M", "E", "N", "T">>

CAT_RENTAL_INCOME == <<"R", "e", "n", "t", "a", "l", " ", "I", "n", "c", "o", "m", "e">>

CAT_CREDIT_CARD_PAYMENT == <<"C", "r", "e", "d", "i", "t", " ", "C", "a", "r", "d", " ", "P", "a", "y", "m", "e", "n", "t">>

CAT_PHONE_EXPENSE == <<"P", "h", "o", "n", "e", " ", "E", "x", "p", "e", "n", "s", "e">>

CAT_PERSONAL_TRANSFER == <<"P", "e", "r", "s", "o", "n", "a", "l", " ", "T", "r", "a", "n", "s", "f", "e", "r">>

CONF_HARD == <<"h", "a", "r", "d">>

CONF_GUESS == <<"g", "u", "e", "s", "s">>

NOTE_VERIFY_CC == <<"v", "e", "r", "i", "f", "y", " ", "i", "f", " ", "t", "h", "i", "s", " ", "i", "s", " ", "a", "l", "w", "a", "y", "s", " ", "C", "C", " ", "p", "a", "y", "m", "e", "n", "t">>

NOTE_UNKNOWN_CHECK == <<"u", "n", "k", "n", "o", "w", "n", " ", "c", "h", "e", "c", "k", " ", "p", "a", "y", "e", "e">>

REASON_LARGE_NEEDS == <<"l", "a", "r", "g", "e", " ", "+", " ", "n", "e", "e", "d", "s", " ", "c", "l", "a", "s", "s", "i", "f", "i", "c", "a", "t", "i", "o", "n">>

REASON_GENERIC == <<"g", "e", "n", "e", "r", "i", "c", " ", "o", "r", " ", "m", "i", "s", "s", "i", "n", "g", " ", "n", "a", "m", "e">>

REASON_LARGE_MEMO == <<"l", "a", "r", "g", "e", " ", "a", "m", "o", "u", "n", "t", ",", " ", "m", "i", "s", "s", "i", "n", "g", " ", "m", "e", "m", "o">>

W_AmericanExpress == <<"A", "m", "e", "r", "i", "c", "a", "n", " ", "E", "x", "p", "r", "e", "s", "s">>

W_AT_AMP_T == <<"A", "T", "&", "a", "m", "p", ";", "T">>

W_TransferTo == <<"T", "r", "a", "n", "s", "f", "e", "r", " ", "T", "o">>

W_RENT == <<"R", "E", "N", "T">>

W_ACME == <<"A", "C", "M", "E">>

W_pos_padded == <<" ", "p", "o", "s", " ">>

W_Check101 == <<"C", "H", "E", "C", "K", " ", "#", " ", "1", "0", "1">>

W_m == <<"m">>

W_101 == <<"1", "0", "1">>

K_id == <<"i", "d">>

K_ym == <<"y", "m">>

K_posted_date == <<"p", "o", "s", "t", "e", "d", "_", "d", "a", "t", "e">>

K_amount == <<"a", "m", "o", "u", "n", "t">>

K_name == <<"n", "a", "m", "e">>

K_memo == <<"m", "e", "m", "o">>

K_reason == <<"r", "e", "a", "s", "o", "n">>

K_status == <<"s", "t", "a", "t", "u", "s">>

K_category == <<"c", "a", "t", "e", "g", "o", "r", "y">>

V_open == <<"o", "p", "e", "n">>

V_resolved == <<"r", "e", "s", "o", "l", "v", "e", "d">>

V_Rent == <<"R", "e", "n", "t">>

V_ok == <<"o", "k">>

YM == <<"2", "0", "2", "4", "-", "0", "1">>

D1 == <<"2", "0", "2", "4", "-", "0", "1", "-", "0", "5">>

A_status_resolved == <<"s", "t", "a", "t", "u", "s", "=", "r", "e", "s", "o", "l", "v", "e", "d">>

A_status_pending == <<"s", "t", "a", "t", "u", "s", "=", "p", "e", "n", "d", "i", "n", "g">>

A_category_Rent == <<" ", "c", "a", "t", "e", "g", "o", "r", "y", " ", "=", " ", "\"", "R", "e", "n", "t", "\"", " ">>

A_reason_ok == <<"r", "e", "a", "s", "o", "n", "=", "o", "k">>

A_note == <<"n", "o", "t", "e">>

F1 == <<"f", "1">>

F2 == <<"f", "2">>

F3 == <<"f", "3">>

F4 == <<"f", "4">>

F5 == <<"f", "5">>


(* ------------------------------- state -------------------------------- *)

VARIABLES
    \* config.defaults
    ASSUME_ALL_INCOME_IS_RENTAL,
    \* one transaction handed to the pure functions, and their results
    tx, ran, rr, nr, rv,
    \* SQLiteStore.list_by_month for the month, and data/review_<ym>.jsonl
    txs, bucket,
    \* the last command line run against the bucket and what it printed
    cmd, argRid, argBadAt, outcome, counts, nextOpen,
    \* history: the keys each id was given by review-set, and whether the
    \* last command repeated a review
    opKeys, rerun,
    \* two concurrent processes: position, arguments, loaded items
    pc, parg, items,
    \* history: invocations that ran while the other was between load and save
    overlapped

ruleVars == <<tx, ran, rr, nr, rv>>
ledgerVars == <<txs, bucket, cmd, argRid, argBadAt, outcome, counts, nextOpen, opKeys, rerun>>
procVars == <<pc, parg, items, overlapped>>
vars == <<ASSUME_ALL_INCOME_IS_RENTAL, ruleVars, ledgerVars, procVars>>

(* --------------------------- rules_v1.py ------------------------------ *)

RuleResult(category, confidence, note) ==
    [category |-> category, confidence |-> confidence, note |-> note]

_clean(s) == strip(unescape(OrEmpty(s)))

\* The predicates of classify_tx's if-chain, over name = _clean(t.name).upper().
is_income(t) == t.amount > 0 /\ ASSUME_ALL_INCOME_IS_RENTAL
is_amex(name) == In(TOK_AMERICAN_EXPRESS, name) \/ In(TOK_AMEX, name)
is_citi(name) == In(TOK_CITI, name) \/ In(TOK_CITIBANK, name)
is_att(name) == In(TOK_AT_T, name) \/ In(TOK_ATT, name)
is_home_depot(name) == In(TOK_HOME_DEPOT, name)
is_cash_app_transfer(name) ==
    In(TOK_CASH_APP, name) /\ (In(TOK_TRANSFER_TO, name) \/ In(TOK_TRANSFER, name))
is_meta_pay(name) == In(TOK_META_PAY, name)
is_transfer_to(name) == In(TOK_TRANSFER_TO, name)
is_check(t, name) == In(TOK_CHECK_HASH, name) \/ t.checknum # None

\* classify_tx with the TRANSFER TO rule tried before the card issuers.
classify_tx_transfer_first(t) ==
    LET name == upper(_clean(t.name))
    IN  IF is_income(t) THEN RuleResult(CAT_RENTAL_INCOME, CONF_GUESS, None)
        ELSE IF is_transfer_to(name) THEN RuleResult(CAT_PERSONAL_TRANSFER, CONF_GUESS, None)
        ELSE IF is_amex(name) THEN RuleResult(CAT_CREDIT_CARD_PAYMENT, CONF_HARD, None)
        ELSE IF is_citi(name) THEN RuleResult(CAT_CREDIT_CARD_PAYMENT, CONF_HARD, None)
        ELSE IF is_att(name) THEN RuleResult(CAT_PHONE_EXPENSE, CONF_HARD, None)
        ELSE IF is_home_depot(name)
             THEN RuleResult(CAT_CREDIT_CARD_PAYMENT, CONF_GUESS, NOTE_VERIFY_CC)
        ELSE IF is_cash_app_transfer(name) THEN RuleResult(CAT_PERSONAL_TRANSFER, CONF_GUESS, None)
        ELSE IF is_meta_pay(name) THEN RuleResult(CAT_PERSONAL_TRANSFER, CONF_GUESS, None)
        ELSE IF is_check(t, name) THEN RuleResult(None, CONF_GUESS, NOTE_UNKNOWN_CHECK)
        ELSE RuleResult(None, CONF_GUESS, None)

\* classify_tx with the Home Depot rule returning "hard" like its neighbours.
classify_tx_home_depot_hard(t) ==
    LET name == upper(_clean(t.name))
    IN  IF is_income(t) THEN RuleResult(CAT_RENTAL_INCOME, CONF_GUESS, None)
        ELSE IF is_amex(name) THEN RuleResult(CAT_CREDIT_CARD_PAYMENT, CONF_HARD, None)
        ELSE IF is_citi(name) THEN RuleResult(CAT_CREDIT_CARD_PAYMENT, CONF_HARD, None)
        ELSE IF is_att(name) THEN RuleResult(CAT_PHONE_EXPENSE, CONF_HARD, None)
        ELSE IF is_home_depot(name)
             THEN RuleResult(CAT_CREDIT_CARD_PAYMENT, CONF_HARD, NOTE_VERIFY_CC)
        ELSE IF is_cash_app_transfer(name) THEN RuleResult(CAT_PERSONAL_TRANSFER, CONF_GUESS, None)
        ELSE IF is_meta_pay(name) THEN RuleResult(CAT_PERSONAL_TRANSFER, CONF_GUESS, None)
        ELSE IF is_transfer_to(name) THEN RuleResult(CAT_PERSONAL_TRANSFER, CONF_GUESS, None)
        ELSE IF is_check(t, name) THEN RuleResult(None, CONF_GUESS, NOTE_UNKNOWN_CHECK)
        ELSE RuleResult(None, CONF_GUESS, None)

classify_tx(t) ==
    LET name == upper(_clean(t.name))
    IN  IF is_income(t) THEN RuleResult(CAT_RENTAL_INCOME, CONF_GUESS, None)
        ELSE IF is_amex(name) THEN RuleResult(CAT_CREDIT_CARD_PAYMENT, CONF_HARD, None)
        ELSE IF is_citi(name) THEN RuleResult(CAT_CREDIT_CARD_PAYMENT, CONF_HARD, None)
        ELSE IF is_att(name) THEN RuleResult(CAT_PHONE_EXPENSE, CONF_HARD, None)
        ELSE IF is_home_depot(name)
             THEN RuleResult(CAT_CREDIT_CARD_PAYMENT, CONF_GUESS, NOTE_VERIFY_CC)
        ELSE IF is_cash_app_transfer(name) THEN RuleResult(CAT_PERSONAL_TRANSFER, CONF_GUESS, None)
        ELSE IF is_meta_pay(name) THEN RuleResult(CAT_PERSONAL_TRANSFER, CONF_GUESS, None)
        ELSE IF is_transfer_to(name) THEN RuleResult(CAT_PERSONAL_TRANSFER, CONF_GUESS, None)
        ELSE IF is_check(t, name) THEN RuleResult(None, CONF_GUESS, NOTE_UNKNOWN_CHECK)
        ELSE RuleResult(None, CONF_GUESS, None)

(* ----------------------- the two selectors (sb.py) --------------------- *)

LARGE_AMOUNT == 500

GENERIC_NAMES == {TOK_POS, TOK_ONLINE, TOK_PAYMENT}

Abs(n) == IF n < 0 THEN -n ELSE n

\* cmd_report's Needs Review loop: the reason, or None when not flagged.
needs_review_reason(t) ==
    LET amt == Abs(t.amount)
        name_u == strip(upper(OrEmpty(t.name)))
        is_large == amt >= LARGE_AMOUNT
        is_generic == name_u = <<>> \/ name_u \in GENERIC_NAMES
        is_transferish == In(TOK_TRANSFER, name_u)
        is_checkish == In(TOK_CHECK, name_u) \/ Truthy(t.checknum)
    IN  IF is_large /\ (is_generic \/ is_transferish \/ is_checkish)
        THEN REASON_LARGE_NEEDS
        ELSE IF is_generic THEN REASON_GENERIC
        ELSE None

\* cmd_review's loop: the reason, or None when the transaction is skipped.
review_reason(t) ==
    LET amt == Abs(t.amount)
        name_u == strip(upper(OrEmpty(t.name)))
        memo_s == strip(OrEmpty(t.memo))
    IN  IF amt >= LARGE_AMOUNT /\ memo_s = <<>> THEN REASON_LARGE_MEMO
        ELSE IF name_u = <<>> \/ name_u \in GENERIC_NAMES THEN REASON_GENERIC
        ELSE None

(* ----------------------- ledger/review_store.py ------------------------ *)

Transaction(fitid, posted_date, amount, name, memo, checknum) ==
    [fitid |-> fitid, posted_date |-> posted_date, amount |-> amount,
     name |-> name, memo |-> memo, checknum |-> checknum]

\* The identity of a stored row: date, amount, name and the bank's own id.
fingerprint(t) == <<t.posted_date, t.amount, t.name, t.fitid>>

\* SQLiteStore.upsert_transactions: a row whose fingerprint is stored is skipped.
RECURSIVE upsert_transactions(_, _)
upsert_transactions(store, new) ==
    IF new = <<>> THEN store
    ELSE IF \E i \in 1..Len(store) : fingerprint(store[i]) = fingerprint(Head(new))
         THEN upsert_transactions(store, Tail(new))
         ELSE upsert_transactions(Append(store, Head(new)), Tail(new))

\* The review id: the same for the same date, amount, name and check number.
make_review_id(t) ==
    [posted_date |-> t.posted_date, amount |-> t.amount, name |-> t.name,
     checknum |-> t.checknum]

\* The bucket file holds one self-contained record per line, addressed by its
\* id field; loading gives the mapping id -> record.
load_review_items(file) ==
    [rid \in {r[K_id] : r \in file} |-> CHOOSE r \in file : r[K_id] = rid]

\* Saving replaces the whole file by the records of the mapping.
save_review_items(its) == {its[rid] : rid \in DOMAIN its}

\* d with d[k] = v
SetItem(d, k, v) ==
    [x \in DOMAIN d \cup {k} |-> IF x = k THEN v ELSE d[x]]

\* dict.get(k, default)
Get(d, k, default) == IF k \in DOMAIN d THEN d[k] ELSE default

\* Absent id: created open with the mechanical fields.  Present id: the
\* mechanical fields are merged in, every other key is left as it is.
upsert_review_item(its, rid, base) ==
    IF rid \in DOMAIN its
    THEN SetItem(its, rid,
            [k \in DOMAIN its[rid] \cup DOMAIN base |->
                IF k \in DOMAIN base THEN base[k] ELSE its[rid][k]])
    ELSE SetItem(its, rid, SetItem(base, K_status, V_open))

IsOpen(it) == Get(it, K_status, V_open) = V_open

IsResolved(it) == K_status \in DOMAIN it /\ it[K_status] = V_resolved

\* A deterministic choice among the open items: {} when there is none.
find_next_open(its) ==
    LET open == {rid \in DOMAIN its : IsOpen(its[rid])}
    IN  IF open = {} THEN {} ELSE {CHOOSE rid \in open : TRUE}

(* ------------------------------- sb.py --------------------------------- *)

Counts(open_ct, resolved_ct, total) ==
    [open |-> open_ct, resolved |-> resolved_ct, total |-> total]

NoCounts == Counts(0, 0, 0)

CountItems(its) ==
    Counts(Cardinality({rid \in DOMAIN its : IsOpen(its[rid])}),
           Cardinality({rid \in DOMAIN its : IsResolved(its[rid])}),
           Cardinality(DOMAIN its))

\* The dict cmd_review builds for a flagged transaction.
review_base(t, rid, reason) ==
    (K_id :> rid) @@ (K_ym :> YM) @@ (K_posted_date :> t.posted_date) @@
    (K_amount :> t.amount) @@ (K_name :> t.name) @@ (K_memo :> t.memo) @@
    (K_reason :> reason)

\* cmd_review's loop over the month's transactions, in store order.
RECURSIVE review_loop(_, _)
review_loop(its, ts) ==
    IF ts = <<>> THEN its
    ELSE LET t == Head(ts)
             reason == review_reason(t)
             rid == make_review_id(t)
         IN  IF reason = None
             THEN review_loop(its, Tail(ts))
             ELSE review_loop(
                     upsert_review_item(its, rid, review_base(t, rid, reason)),
                     Tail(ts))

\* cmd_review building the items afresh instead of loading the saved ones.
cmd_review_no_load(file, ts) ==
    LET its == review_loop(<<>>, ts)
    IN  [file |-> save_review_items(its), counts |-> CountItems(its)]

\* cmd_review adding each flagged amount to the amount already stored.
cmd_review_accumulates(file, ts) ==
    LET old == load_review_items(file)
        its == review_loop(old, ts)
        sum == [rid \in DOMAIN its |->
                   IF rid \in DOMAIN old
                   THEN SetItem(its[rid], K_amount,
                                old[rid][K_amount] + its[rid][K_amount])
                   ELSE its[rid]]
    IN  [file |-> save_review_items(sum), counts |-> CountItems(sum)]

\* cmd_review: load, upsert every flagged transaction, save, print the counts.
cmd_review(file, ts) ==
    LET its == review_loop(load_review_items(file), ts)
    IN  [file |-> save_review_items(its), counts |-> CountItems(its)]

\* The for-loop of cmd_review_set over kvs: the patched item, or the first
\* argument without "=", at which the process exits.
RECURSIVE apply_kvs(_, _)
apply_kvs(it, kvs) ==
    IF kvs = <<>> THEN [bad |-> FALSE, item |-> it]
    ELSE LET kv == Head(kvs)
             eq == Find(kv, "=")
         IN  IF eq = 0
             THEN [bad |-> TRUE, item |-> it]
             ELSE LET k == strip(SubSeq(kv, 1, eq - 1))
                      v == strip_chars(
                               strip_chars(strip(SubSeq(kv, eq + 1, Len(kv))), {"\""}),
                               {"'"})
                  IN  apply_kvs(SetItem(it, k, v), Tail(kvs))

Result(file, out) == [file |-> file, outcome |-> out]

\* cmd_review_set patching an id it does not find instead of exiting.
cmd_review_set_creates(file, rid, kvs) ==
    LET its == load_review_items(file)
        old == IF rid \in DOMAIN its THEN its[rid] ELSE (K_id :> rid)
        r == apply_kvs(old, kvs)
    IN  IF r.bad THEN Result(file, "badfield")
        ELSE Result(save_review_items(SetItem(its, rid, r.item)), "updated")

\* cmd_review_set saving what it applied before it met the malformed argument.
cmd_review_set_partial(file, rid, kvs) ==
    LET its == load_review_items(file)
    IN  IF rid \notin DOMAIN its THEN Result(file, "notfound")
        ELSE LET r == apply_kvs(its[rid], kvs)
             IN  Result(save_review_items(SetItem(its, rid, r.item)),
                        IF r.bad THEN "badfield" ELSE "updated")

\* cmd_review_set saving only the item it patched.
cmd_review_set_drops(file, rid, kvs) ==
    LET its == load_review_items(file)
    IN  IF rid \notin DOMAIN its THEN Result(file, "notfound")
        ELSE LET r == apply_kvs(its[rid], kvs)
             IN  IF r.bad THEN Result(file, "badfield")
                 ELSE Result({r.item}, "updated")

\* cmd_review_set reporting the update without saving it.
cmd_review_set_no_save(file, rid, kvs) ==
    LET its == load_review_items(file)
    IN  IF rid \notin DOMAIN its THEN Result(file, "notfound")
        ELSE LET r == apply_kvs(its[rid], kvs)
             IN  IF r.bad THEN Result(file, "badfield")
                 ELSE Result(file, "updated")

\* cmd_review_set: load, find the id, apply every key=value, save.
cmd_review_set(file, rid, kvs) ==
    LET its == load_review_items(file)
    IN  IF rid \notin DOMAIN its THEN Result(file, "notfound")
        ELSE LET r == apply_kvs(its[rid], kvs)
             IN  IF r.bad THEN Result(file, "badfield")
                 ELSE Result(save_review_items(SetItem(its, rid, r.item)), "updated")

\* Position of the first argument without "=", 0 when every one has it.
RECURSIVE BadFrom(_, _)
BadFrom(kvs, i) ==
    IF i > Len(kvs) THEN 0
    ELSE IF Find(kvs[i], "=") = 0 THEN i
    ELSE BadFrom(kvs, i + 1)

BadAt(kvs) == BadFrom(kvs, 1)

\* The keys a well-formed argument list sets.
RECURSIVE KeysOf(_)
KeysOf(kvs) ==
    IF kvs = <<>> THEN {}
    ELSE LET eq == Find(Head(kvs), "=")
         IN  (IF eq = 0 THEN {} ELSE {strip(SubSeq(Head(kvs), 1, eq - 1))})
             \cup KeysOf(Tail(kvs))

(* ------------------------------ inputs -------------------------------- *)

\* Words of the names handed to the classifier.
RuleWords ==
    {TOK_AMEX, W_AmericanExpress, TOK_CITI, W_AT_AMP_T, TOK_HOME_DEPOT,
     TOK_CASH_APP, TOK_META_PAY, W_TransferTo, TOK_TRANSFER, TOK_CHECK_HASH, W_RENT}

\* Words of the names handed to the selectors.
SelWords == {W_pos_padded, TOK_ONLINE, TOK_PAYMENT, W_TransferTo, TOK_CHECK, W_ACME}

RuleInputs ==
    {Transaction(F1, D1, a, n, <<>>, c) :
        a \in {-600, 2000}, n \in NamesUpTo(RuleWords, MaxWords), c \in {None, W_101}}

SelInputs ==
    {Transaction(F1, D1, a, n, m, c) :
        a \in {-600, -500, -499, 2000}, n \in NamesUpTo(SelWords, MaxSelWords),
        m \in {<<>>, W_m}, c \in {None, W_101}}

T_POS == Transaction(F1, D1, -40, W_pos_padded, <<>>, None)
T_ACME == Transaction(F2, D1, -600, W_ACME, <<>>, None)
T_POS_M == Transaction(F3, D1, -40, W_pos_padded, W_m, None)
T_ACME_M == Transaction(F4, D1, -600, W_ACME, W_m, None)
T_CHECK == Transaction(F5, D1, -700, W_Check101, <<>>, W_101)

\* The month's bank statement, in file order; a download holds a prefix of it.
Statement == <<T_POS, T_ACME, T_POS_M, T_ACME_M>>

Min(a, b) == IF a < b THEN a ELSE b

Downloads == {SubSeq(Statement, 1, n) : n \in 1..Min(MaxTxs, Len(Statement))}

\* The ids an operator may type: those of the statement's transactions.
RidPool == {make_review_id(Statement[i]) : i \in 1..Len(Statement)}

\* The same, and the id of a transaction no import has brought in.
PatchRidPool == RidPool \cup {make_review_id(T_CHECK)}

ArgPool == {A_status_resolved, A_status_pending, A_category_Rent, A_reason_ok, A_note}

RECURSIVE ArgListsUpTo(_)
ArgListsUpTo(n) ==
    IF n = 0 THEN {<<>>}
    ELSE LET prev == ArgListsUpTo(n - 1)
         IN  prev \cup {Append(s, a) : s \in prev, a \in ArgPool}

ArgLists == ArgListsUpTo(MaxArgs)

PatchArgLists == ArgListsUpTo(MaxPatchArgs)

Procs == {1, 2}

(* ------------------------------ initial ------------------------------- *)

NoResult == RuleResult(None, None, None)

RulesIdle ==
    /\ tx = Transaction(F1, D1, 0, <<>>, <<>>, None)
    /\ ran = {}
    /\ rr = NoResult
    /\ nr = None
    /\ rv = None

LedgerIdle ==
    /\ cmd = "none"
    /\ argRid = {}
    /\ argBadAt = 0
    /\ outcome = "none"
    /\ counts = NoCounts
    /\ nextOpen = {}
    /\ opKeys = {}
    /\ rerun = FALSE

ProcsIdle ==
    /\ pc = [p \in Procs |-> "idle"]
    /\ parg = [p \in Procs |-> <<>>]
    /\ items = [p \in Procs |-> {}]
    /\ overlapped = FALSE

\* One transaction and the configuration flag; no function applied yet.
InitRules ==
    /\ ASSUME_ALL_INCOME_IS_RENTAL \in BOOLEAN
    /\ tx \in RuleInputs
    /\ ran = {} /\ rr = NoResult /\ nr = None /\ rv = None
    /\ txs = <<>> /\ bucket = {}
    /\ LedgerIdle /\ ProcsIdle

InitSelect ==
    /\ ASSUME_ALL_INCOME_IS_RENTAL = FALSE
    /\ tx \in SelInputs
    /\ ran = {} /\ rr = NoResult /\ nr = None /\ rv = None
    /\ txs = <<>> /\ bucket = {}
    /\ LedgerIdle /\ ProcsIdle

\* An empty store and no review file.
Init ==
    /\ ASSUME_ALL_INCOME_IS_RENTAL = FALSE
    /\ RulesIdle
    /\ txs = <<>>
    /\ bucket = {}
    /\ LedgerIdle /\ ProcsIdle

\* The buckets review-set is tried on: some part of the statement imported
\* and reviewed, and possibly one field of one item set since.
ReviewedBuckets ==
    {cmd_review({}, SubSeq(Statement, 1, n)).file : n \in 0..Len(Statement)}

PatchedBuckets ==
    ReviewedBuckets \cup
    {cmd_review_set(b, rid, <<a>>).file :
        b \in ReviewedBuckets, rid \in RidPool, a \in ArgPool}

InitPatch ==
    /\ ASSUME_ALL_INCOME_IS_RENTAL = FALSE
    /\ RulesIdle
    /\ txs = <<>>
    /\ bucket \in PatchedBuckets
    /\ LedgerIdle /\ ProcsIdle

\* The whole statement imported and reviewed once; both processes idle.
InitConc ==
    /\ ASSUME_ALL_INCOME_IS_RENTAL = FALSE
    /\ RulesIdle
    /\ txs = Statement
    /\ bucket = cmd_review({}, txs).file
    /\ LedgerIdle /\ ProcsIdle

(* ------------------------------ actions ------------------------------- *)

Classify ==
    /\ "classify" \notin ran
    /\ ran' = ran \cup {"classify"}
    /\ rr' = classify_tx(tx)
    /\ UNCHANGED <<ASSUME_ALL_INCOME_IS_RENTAL, tx, nr, rv, ledgerVars, procVars>>

ReportSelect ==
    /\ "report" \notin ran
    /\ ran' = ran \cup {"report"}
    /\ nr' = needs_review_reason(tx)
    /\ UNCHANGED <<ASSUME_ALL_INCOME_IS_RENTAL, tx, rr, rv, ledgerVars, procVars>>

ReviewSelect ==
    /\ "review" \notin ran
    /\ ran' = ran \cup {"review"}
    /\ rv' = review_reason(tx)
    /\ UNCHANGED <<ASSUME_ALL_INCOME_IS_RENTAL, tx, rr, nr, ledgerVars, procVars>>

\* What every command leaves of the previous command's output.
Fresh(c, out) ==
    /\ cmd' = c
    /\ outcome' = out
    /\ UNCHANGED <<ASSUME_ALL_INCOME_IS_RENTAL, ruleVars, procVars>>

\* sb import <qfx_file>
Import(download) ==
    /\ txs' = upsert_transactions(txs, download)
    /\ Fresh("import", "imported")
    /\ argRid' = {} /\ argBadAt' = 0 /\ counts' = NoCounts /\ nextOpen' = {}
    /\ rerun' = FALSE
    /\ UNCHANGED <<bucket, opKeys>>

\* sb review YYYY-MM
Review ==
    /\ \E r \in {cmd_review(bucket, txs)} :
           /\ bucket' = r.file
           /\ counts' = r.counts
    /\ Fresh("review", "saved")
    /\ argRid' = {} /\ argBadAt' = 0 /\ nextOpen' = {}
    /\ rerun' = (cmd = "review" /\ outcome = "saved")
    /\ UNCHANGED <<txs, opKeys>>

\* sb review-next YYYY-MM
ReviewNext ==
    /\ \E nxt \in {find_next_open(load_review_items(bucket))} :
           /\ nextOpen' = nxt
           /\ Fresh("review-next", IF nxt = {} THEN "no-open" ELSE "shown")
    /\ argRid' = {} /\ argBadAt' = 0 /\ counts' = NoCounts
    /\ rerun' = FALSE
    /\ UNCHANGED <<txs, bucket, opKeys>>

\* sb review-set YYYY-MM <id> key=value ...
ReviewSet(rid, kvs) ==
    /\ \E r \in {cmd_review_set(bucket, rid, kvs)} :
           /\ bucket' = r.file
           /\ Fresh("review-set", r.outcome)
           /\ opKeys' = IF r.outcome = "updated"
                        THEN opKeys \cup {<<rid, k>> : k \in KeysOf(kvs)}
                        ELSE opKeys
    /\ argRid' = {rid} /\ argBadAt' = BadAt(kvs)
    /\ counts' = NoCounts /\ nextOpen' = {}
    /\ rerun' = FALSE
    /\ UNCHANGED txs

\* sb review-status YYYY-MM
ReviewStatus ==
    /\ \E its \in {load_review_items(bucket)} :
           IF DOMAIN its = {}
           THEN Fresh("review-status", "no-file") /\ counts' = NoCounts
           ELSE Fresh("review-status", "printed") /\ counts' = CountItems(its)
    /\ argRid' = {} /\ argBadAt' = 0 /\ nextOpen' = {}
    /\ rerun' = FALSE
    /\ UNCHANGED <<txs, bucket, opKeys>>

\* Any of the commands with too few arguments, or a month without "-".
UsageError ==
    /\ Fresh("usage", "usage")
    /\ argRid' = {} /\ argBadAt' = 0 /\ counts' = NoCounts /\ nextOpen' = {}
    /\ rerun' = FALSE
    /\ UNCHANGED <<txs, bucket, opKeys>>

(* ------------------------- concurrent processes ------------------------ *)

Invocation(c, rid, kvs) == [cmd |-> c, rid |-> rid, kvs |-> kvs]

\* Process p starts a command and reads the whole bucket file.
Load(p, inv) ==
    /\ pc[p] = "idle"
    /\ pc' = [pc EXCEPT ![p] = "loaded"]
    /\ parg' = [parg EXCEPT ![p] = inv]
    /\ items' = [items EXCEPT ![p] = bucket]
    /\ overlapped' = (overlapped \/ \E q \in Procs \ {p} : pc[q] = "loaded")
    /\ UNCHANGED <<ASSUME_ALL_INCOME_IS_RENTAL, ruleVars, ledgerVars>>

\* Process p mutates what it read and, unless it exits early, replaces the file.
Save(p) ==
    /\ pc[p] = "loaded"
    /\ IF parg[p].cmd = "review"
       THEN /\ bucket' = cmd_review(items[p], txs).file
            /\ pc' = [pc EXCEPT ![p] = "saved"]
       ELSE \E r \in {cmd_review_set(items[p], parg[p].rid, parg[p].kvs)} :
            /\ pc' = [pc EXCEPT ![p] = r.outcome]
            /\ bucket' = IF r.outcome = "updated" THEN r.file ELSE bucket
    /\ UNCHANGED <<ASSUME_ALL_INCOME_IS_RENTAL, ruleVars, txs, cmd, argRid, argBadAt,
                   outcome, counts, nextOpen, opKeys, rerun, parg, items, overlapped>>

(* --------------------------- specifications --------------------------- *)

NextRules == Classify

NextSelect == ReportSelect \/ ReviewSelect

Next ==
    \/ \E d \in Downloads : Import(d)
    \/ Review
    \/ ReviewNext
    \/ \E rid \in RidPool, kvs \in ArgLists : ReviewSet(rid, kvs)
    \/ ReviewStatus
    \/ UsageError

NextPatch ==
    \E rid \in PatchRidPool, kvs \in PatchArgLists :
        cmd = "none" /\ ReviewSet(rid, kvs)

NextConc ==
    \/ \E p \in Procs : Load(p, Invocation("review", None, <<>>))
    \/ \E p \in Procs, rid \in RidPool, a \in ArgPool :
          Load(p, Invocation("review-set", rid, <<a>>))
    \/ \E p \in Procs : Save(p)

\* The classifier applied to one transaction.
SpecRules == InitRules /\ [][NextRules]_vars

\* The two selectors applied to one transaction.
SpecSelect == InitSelect /\ [][NextSelect]_vars

\* The operator's workflow: commands run one after another.
Spec == Init /\ [][Next]_vars

\* One review-set, with a longer argument list, on a reviewed bucket.
SpecPatch == InitPatch /\ [][NextPatch]_vars

\* Two processes whose loads and saves interleave.
SpecConc == InitConc /\ [][NextConc]_vars

(* ------------------------------ properties ----------------------------- *)

Ids(file) == {r[K_id] : r \in file}

\* A step of the review command that reached its save.
ReviewStep == cmd' = "review" /\ outcome' = "saved"

\* The keys the review command writes.
ReviewKeys == {K_id, K_ym, K_posted_date, K_amount, K_name, K_memo, K_reason}

\* C1: review-set on an id that is not in the bucket ends in the not-found
\* outcome, whatever its arguments, and leaves the bucket file as it was: no
\* item is created.
C1_UnknownIdRejected ==
    [][\A rid \in PatchRidPool :
          (cmd' = "review-set" /\ argRid' = {rid} /\ rid \notin Ids(bucket))
              => (outcome' = "notfound" /\ bucket' = bucket)]_vars

\* A review-set on a non-empty bucket that does not hold the id has run.
C1_Witness ==
    /\ cmd = "review-set" /\ outcome = "notfound"
    /\ bucket # {} /\ argRid # {} /\ argRid \cap Ids(bucket) = {}

\* C2: review-set on an existing id with a malformed argument at any
\* position ends in the malformed-field outcome and applies nothing: the
\* bucket file is as it was.
C2_MalformedRejectsAll ==
    [][(cmd' = "review-set" /\ argBadAt' > 0 /\ argRid' \subseteq Ids(bucket))
          => (outcome' = "badfield" /\ bucket' = bucket)]_vars

\* A review-set whose malformed argument came after a well-formed one has run
\* on an existing id.
C2_Witness ==
    /\ cmd = "review-set" /\ outcome = "badfield" /\ argBadAt > 1
    /\ argRid # {} /\ argRid \subseteq Ids(bucket)

C4_StatusOpenOrResolved ==
    /\ \A r \in bucket : IsOpen(r) \/ IsResolved(r)
    /\ outcome \in {"saved", "printed"} => counts.open + counts.resolved = counts.total

\* C5: the review command flags a transaction exactly when the report's
\* Needs-Review selector does, and with the same reason.
C5_ReviewUsesSelector ==
    {"report", "review"} \subseteq ran => rv = nr

\* The rules of classify_tx in the order claimed, each with its result.
RuleMatches(t) ==
    LET name == upper(_clean(t.name))
    IN  <<is_income(t), is_amex(name), is_citi(name), is_att(name),
          is_home_depot(name), is_cash_app_transfer(name), is_meta_pay(name),
          is_transfer_to(name), is_check(t, name), TRUE>>

RuleOutcomes ==
    <<RuleResult(CAT_RENTAL_INCOME, CONF_GUESS, None),
      RuleResult(CAT_CREDIT_CARD_PAYMENT, CONF_HARD, None),
      RuleResult(CAT_CREDIT_CARD_PAYMENT, CONF_HARD, None),
      RuleResult(CAT_PHONE_EXPENSE, CONF_HARD, None),
      RuleResult(CAT_CREDIT_CARD_PAYMENT, CONF_GUESS, NOTE_VERIFY_CC),
      RuleResult(CAT_PERSONAL_TRANSFER, CONF_GUESS, None),
      RuleResult(CAT_PERSONAL_TRANSFER, CONF_GUESS, None),
      RuleResult(CAT_PERSONAL_TRANSFER, CONF_GUESS, None),
      RuleResult(None, CONF_GUESS, NOTE_UNKNOWN_CHECK),
      RuleResult(None, CONF_GUESS, None)>>

FirstMatch(t) ==
    LET m == RuleMatches(t)
    IN  CHOOSE i \in 1..Len(m) : m[i] /\ \A j \in 1..(i - 1) : ~m[j]

\* The rules that name a card issuer: AMEX / American Express and CITI.
IssuerRules == {2, 3}

\* The rules that return "hard": the card issuers and AT&T.
HardRules == {2, 3, 4}

\* C6: classify_tx returns the category, confidence and note of the earliest
\* rule the transaction satisfies; a name with a card-issuer token and
\* TRANSFER TO is never a Personal Transfer.
C6_FirstMatchWins ==
    "classify" \in ran =>
        /\ rr = RuleOutcomes[FirstMatch(tx)]
        /\ LET name == upper(_clean(tx.name))
           IN  ((is_amex(name) \/ is_citi(name)) /\ is_transfer_to(name))
                   => rr.category # CAT_PERSONAL_TRANSFER

\* A debit naming both a card issuer and TRANSFER TO has been classified.
C6_Witness ==
    /\ "classify" \in ran /\ tx.amount < 0
    /\ is_amex(upper(_clean(tx.name))) /\ is_transfer_to(upper(_clean(tx.name)))
    /\ rr = RuleResult(CAT_CREDIT_CARD_PAYMENT, CONF_HARD, None)

\* C7 as claimed: the confidence is "hard" exactly when the rule that matched
\* names a financial institution or card issuer.
C7_Original ==
    "classify" \in ran => (rr.confidence = CONF_HARD <=> FirstMatch(tx) \in IssuerRules)

\* C7 as amended: the confidence is "hard" exactly when the rule that matched
\* is a card-issuer rule or the AT&T rule, and "guess" for every other rule.
C7_Amended ==
    "classify" \in ran =>
        /\ rr.confidence = CONF_HARD <=> FirstMatch(tx) \in HardRules
        /\ rr.confidence = CONF_GUESS <=> FirstMatch(tx) \notin HardRules

\* A transaction whose first matching rule is AT&T has been classified "hard".
C7_Witness ==
    /\ "classify" \in ran
    /\ FirstMatch(tx) \in HardRules \ IssuerRules
    /\ rr = RuleResult(CAT_PHONE_EXPENSE, CONF_HARD, None)

BothUpdated ==
    /\ \A p \in Procs : pc[p] = "updated"
    /\ parg[1].rid # parg[2].rid

\* The bucket file holds every field process p's arguments set.
HasPatch(p) ==
    LET patch == apply_kvs(<<>>, parg[p].kvs).item
    IN  \E r \in bucket :
            /\ r[K_id] = parg[p].rid
            /\ \A k \in DOMAIN patch : k \in DOMAIN r /\ r[k] = patch[k]

\* C9: when the two invocations did not overlap, the bucket holds both
\* patches.
C9_SequentialKeepsBoth ==
    (BothUpdated /\ ~overlapped) => (HasPatch(1) /\ HasPatch(2))

\* C9: the lost update. Both invocations reported success and the bucket
\* holds the patch of only one of them.
C9_LostUpdate ==
    /\ BothUpdated /\ overlapped
    /\ ~(HasPatch(1) /\ HasPatch(2))
    /\ HasPatch(1) \/ HasPatch(2)

\* C10: a review run right after a review run leaves the bucket file and the
\* printed counts as the first run left them.
C10_ReviewIdempotent ==
    [][(cmd = "review" /\ outcome = "saved" /\ ReviewStep)
          => (bucket' = bucket /\ counts' = counts)]_vars

\* Review has run twice in a row on a bucket the operator had worked on.
C10_Witness ==
    /\ rerun /\ cmd = "review"
    /\ \E r \in bucket : IsResolved(r) /\ K_category \in DOMAIN r

====
